---- MODULE Spec2Model ----
(***************************************************************************)
(* Model of jax/_src/lax/control_flow/common.py: the joining of staged     *)
(* branch jaxprs over one common constant list                             *)
(* (_initial_style_jaxprs_with_common_consts), the memoised staging        *)
(* functions, and the pytree/aval checkers.                                *)
(***************************************************************************)
EXTENDS Naturals, Sequences, FiniteSets

(* ---------------------------------------------------------------- bounds *)
\* Most branches handed to one unification call.
MaxBranches == 3
\* Most captured constants over all the branches of one call.
MaxTotalConsts == 4
\* Most traces (cache misses of the stager) in one run.
MaxTraces == 2
\* Most entries of the tables of _initial_style_jaxpr and of
\* _initial_style_jaxprs_with_common_consts together in one run.
MaxEntries == 1
\* Most children of a pytree node handed to the checkers.
MaxArity == 2

VARIABLES
  \* _initial_style_jaxprs_with_common_consts, lines 79-187
  all_consts,                 \* per branch, the constants the trace captured
  jaxprs,                     \* per branch, the jaxpr's constvars
  canonical_ref_indices,
  canonical_refs,
  tracer_id_to_canonical_id,
  all_nonref_consts,
  canonical_ref_avals,
  all_nonref_const_avals,
  unused_ref_const_vars,
  unused_const_vars,
  consts,                     \* the returned constant list
  pc,                         \* position in the function body
  k,                          \* index of the running for loop
  \* the memoised functions, lines 52-71
  held,                       \* the callables the caller references
  open_cache,                 \* weakref_lru_cache of _initial_style_open_jaxpr
  closed_cache,               \* weakref_lru_cache of _initial_style_jaxpr
  common_cache,               \* cache() of _initial_style_jaxprs_with_common_consts
  ntraces,                    \* calls of pe.trace_to_jaxpr_dynamic so far
  first_result,               \* history: per key, what its first call returned
  stage_log,                  \* history: the stager calls of the last operation
  \* the checkers, lines 189-232
  checked                     \* the last check made and how it ended

uvars == <<all_consts, jaxprs, canonical_ref_indices, canonical_refs,
           tracer_id_to_canonical_id, all_nonref_consts, canonical_ref_avals,
           all_nonref_const_avals, unused_ref_const_vars, unused_const_vars,
           consts, pc, k>>

cvars == <<held, open_cache, closed_cache, common_cache, ntraces,
           first_result, stage_log>>

kvars == <<checked>>

vars == <<uvars, cvars, kvars>>

(* ------------------------------------------------------- values and vars *)
\* Identities of the Ref tracers of the enclosing run_state.
RefIds == {1, 2}
\* Values of the plain (non-Ref) constants.
PlainVals == {5, 6}

\* A captured constant: its identity id(c) (for a plain constant, its value)
\* and the abstract value core.get_aval gives it.
Consts ==
  {[id |-> r, aval |-> "Ref"] : r \in RefIds} \cup
  {[id |-> v, aval |-> "i32"] : v \in PlainVals}

\* _abstractify(x) = raise_to_shaped(get_aval(x))
_abstractify(c) == c.aval

\* isinstance(aval, state.AbstractRef)
IsAbstractRef(aval) == aval = "Ref"

\* The constvars of the jaxpr traced for branch i: trace_to_jaxpr_dynamic
\* makes one Var per captured constant, in the constants' order, typed by
\* the constant's aval.
TracedConstvars(cs, i) ==
  [j \in 1..Len(cs) |-> [br |-> i, ix |-> j, aval |-> _abstractify(cs[j])]]

\* core.gensym(jaxprs, suffix='_'): the n-th Var it makes, distinct from
\* every Var of the jaxprs (branch number 0 is no branch).
newvar(n, aval) == [br |-> 0, ix |-> n, aval |-> aval]

(* --------------------------------------------------------------- helpers *)
RECURSIVE concatenate(_)
\* util.concatenate(xs)
concatenate(xs) ==
  IF xs = <<>> THEN <<>> ELSE Head(xs) \o concatenate(Tail(xs))

\* util.partition_list(bs, l): (the elements with a false flag, those with
\* a true flag), each in the list's order.
partition_list(bs, l) ==
  LET Pick(flag) ==
        LET idx == {j \in 1..Len(l) : bs[j] = flag}
            RECURSIVE Build(_)
            Build(j) ==
              IF j > Len(l) THEN <<>>
              ELSE (IF j \in idx THEN <<l[j]>> ELSE <<>>) \o Build(j + 1)
        IN Build(1)
  IN <<Pick(FALSE), Pick(TRUE)>>

RECURSIVE SumLens(_)
SumLens(xs) == IF xs = <<>> THEN 0 ELSE Len(Head(xs)) + SumLens(Tail(xs))

(* ------------------------------------------------- lines 142-161: dedup *)
\* The loop body as it would be if the table of seen tracers were never
\* consulted: every Ref gets a canonical slot of its own.
DedupConstNeverSeen(st, c, aval) ==
  IF IsAbstractRef(aval)
  THEN LET canonical_id == Len(st.canonical_refs)
       IN [st EXCEPT
             !.canonical_refs = Append(@, c),
             !.tracer_id_to_canonical_id =
                [t \in DOMAIN @ \cup {c.id} |->
                   IF t = c.id THEN canonical_id ELSE @[t]],
             !.canonical_ref_avals = Append(@, aval),
             !.ref_indices = Append(@, canonical_id)]
  ELSE [st EXCEPT !.nonref_consts = Append(@, c),
                  !.nonref_const_avals = Append(@, aval)]

\* The body of the inner loop (lines 146-158) for constant c with aval,
\* acting on the loop's tables st.
DedupConst(st, c, aval) ==
  IF IsAbstractRef(aval)
  THEN LET tracer_id == c.id
           fresh == tracer_id \notin DOMAIN st.tracer_id_to_canonical_id
           canonical_id == IF fresh THEN Len(st.canonical_refs)
                           ELSE st.tracer_id_to_canonical_id[tracer_id]
       IN [st EXCEPT
             !.canonical_refs = IF fresh THEN Append(@, c) ELSE @,
             !.tracer_id_to_canonical_id =
                IF fresh
                THEN [t \in DOMAIN @ \cup {tracer_id} |->
                        IF t = tracer_id THEN canonical_id ELSE @[t]]
                ELSE @,
             !.canonical_ref_avals = IF fresh THEN Append(@, aval) ELSE @,
             !.ref_indices = Append(@, canonical_id)]
  ELSE [st EXCEPT !.nonref_consts = Append(@, c),
                  !.nonref_const_avals = Append(@, aval)]

RECURSIVE DedupLoop(_, _, _)
\* The inner loop, lines 146-158, from position j of the branch's constants.
DedupLoop(st, cs, j) ==
  IF j > Len(cs) THEN st
  ELSE DedupLoop(DedupConst(st, cs[j], _abstractify(cs[j])), cs, j + 1)

\* One iteration of the outer loop, lines 142-161.
DedupBranch ==
  /\ pc = "dedup"
  /\ k <= Len(all_consts)
  /\ LET st == DedupLoop(
                 [canonical_refs |-> canonical_refs,
                  tracer_id_to_canonical_id |-> tracer_id_to_canonical_id,
                  canonical_ref_avals |-> canonical_ref_avals,
                  ref_indices |-> <<>>,
                  nonref_consts |-> <<>>,
                  nonref_const_avals |-> <<>>],
                 all_consts[k], 1)
     IN /\ canonical_refs' = st.canonical_refs
        /\ tracer_id_to_canonical_id' = st.tracer_id_to_canonical_id
        /\ canonical_ref_avals' = st.canonical_ref_avals
        /\ all_nonref_consts' = Append(all_nonref_consts, st.nonref_consts)
        /\ all_nonref_const_avals' =
             Append(all_nonref_const_avals, st.nonref_const_avals)
        /\ canonical_ref_indices' = Append(canonical_ref_indices, st.ref_indices)
  /\ k' = k + 1
  /\ UNCHANGED <<cvars, kvars>>
  /\ UNCHANGED <<all_consts, jaxprs, unused_ref_const_vars, unused_const_vars,
                 consts, pc>>

(* ------------------------------------------- lines 163-166, 183: gensym *)
\* map(newvar, avals), the generator having made n Vars before.
MapNewvar(n, avals) == [j \in 1..Len(avals) |-> newvar(n + j, avals[j])]

\* Line 183 as it would be if the plain constants came before the Refs.
ConstsPlainFirst(refs, nonref_consts) == concatenate(nonref_consts) \o refs

\* Line 183: consts = [*canonical_refs, *util.concatenate(all_nonref_consts)]
JoinedConsts(refs, nonref_consts) == refs \o concatenate(nonref_consts)

\* Lines 163-166 and 183, reached when the outer loop is exhausted.
MakeUnusedVars ==
  /\ pc = "dedup"
  /\ k > Len(all_consts)
  /\ unused_ref_const_vars' = MapNewvar(0, canonical_ref_avals)
  /\ unused_const_vars' =
       [i \in 1..Len(all_nonref_const_avals) |->
          MapNewvar(Len(canonical_ref_avals)
                      + SumLens(SubSeq(all_nonref_const_avals, 1, i - 1)),
                    all_nonref_const_avals[i])]
  /\ consts' = JoinedConsts(canonical_refs, all_nonref_consts)
  /\ pc' = "pad"
  /\ k' = 1
  /\ UNCHANGED <<cvars, kvars>>
  /\ UNCHANGED <<all_consts, jaxprs, canonical_ref_indices, canonical_refs,
                 tracer_id_to_canonical_id, all_nonref_consts,
                 canonical_ref_avals, all_nonref_const_avals>>

(* ------------------------------------ lines 167-181: pad_jaxpr_constvars *)
RECURSIVE PlaceRefsInOrder(_, _, _, _)
\* Lines 171-172 as they would be if the branch's j-th Ref variable went to
\* slot j instead of its canonical slot.
PlaceRefsInOrder(padded, ids, ref_constvars, j) ==
  IF j > Len(ids) \/ j > Len(ref_constvars) THEN padded
  ELSE PlaceRefsInOrder([padded EXCEPT ![j] = ref_constvars[j]],
                        ids, ref_constvars, j + 1)

RECURSIVE PlaceRefs(_, _, _, _)
\* Lines 171-172: for canonical_id, ref_var in zip(...), from pair j on.
\* canonical ids count from 0, sequences from 1.
PlaceRefs(padded, ids, ref_constvars, j) ==
  IF j > Len(ids) \/ j > Len(ref_constvars) THEN padded
  ELSE PlaceRefs([padded EXCEPT ![ids[j] + 1] = ref_constvars[j]],
                 ids, ref_constvars, j + 1)

\* pad_jaxpr_constvars as it would be if the placeholders of the other
\* branches' plain constants were left out.
PadWithoutOtherBranches(i, constvars) ==
  LET is_ref == [j \in 1..Len(constvars) |-> IsAbstractRef(constvars[j].aval)]
      parts == partition_list(is_ref, constvars)
  IN PlaceRefs(unused_ref_const_vars, canonical_ref_indices[i], parts[2], 1)
       \o parts[1]

\* pad_jaxpr_constvars as it would be if the branch's own plain constvars
\* came before the placeholders of all the other branches.
PadOwnConstsFirst(i, constvars) ==
  LET is_ref == [j \in 1..Len(constvars) |-> IsAbstractRef(constvars[j].aval)]
      parts == partition_list(is_ref, constvars)
  IN PlaceRefs(unused_ref_const_vars, canonical_ref_indices[i], parts[2], 1)
       \o parts[1]
       \o concatenate(SubSeq(unused_const_vars, 1, i - 1))
       \o concatenate(SubSeq(unused_const_vars, i + 1, Len(unused_const_vars)))

\* pad_jaxpr_constvars(i, jaxpr): the new constvars of branch i (i from 1).
pad_jaxpr_constvars(i, constvars) ==
  LET is_ref == [j \in 1..Len(constvars) |-> IsAbstractRef(constvars[j].aval)]
      parts == partition_list(is_ref, constvars)
      nonref_constvars == parts[1]
      ref_constvars == parts[2]
      padded_ref_constvars ==
        PlaceRefs(unused_ref_const_vars, canonical_ref_indices[i],
                  ref_constvars, 1)
      const_prefix == concatenate(SubSeq(unused_const_vars, 1, i - 1))
      const_suffix ==
        concatenate(SubSeq(unused_const_vars, i + 1, Len(unused_const_vars)))
  IN padded_ref_constvars \o const_prefix \o nonref_constvars \o const_suffix

\* One element of the generator of line 184.
PadBranch ==
  /\ pc = "pad"
  /\ k <= Len(jaxprs)
  /\ jaxprs' = [jaxprs EXCEPT ![k] = pad_jaxpr_constvars(k, jaxprs[k])]
  /\ k' = k + 1
  /\ UNCHANGED <<cvars, kvars>>
  /\ UNCHANGED <<all_consts, canonical_ref_indices, canonical_refs,
                 tracer_id_to_canonical_id, all_nonref_consts,
                 canonical_ref_avals, all_nonref_const_avals,
                 unused_ref_const_vars, unused_const_vars, consts, pc>>

\* Lines 185-187: the function returns.
Return ==
  /\ pc = "pad"
  /\ k > Len(jaxprs)
  /\ pc' = "done"
  /\ UNCHANGED <<cvars, kvars>>
  /\ UNCHANGED <<all_consts, jaxprs, canonical_ref_indices, canonical_refs,
                 tracer_id_to_canonical_id, all_nonref_consts,
                 canonical_ref_avals, all_nonref_const_avals,
                 unused_ref_const_vars, unused_const_vars, consts, k>>

(* ------------------------------------------------------------ the inputs *)
RECURSIVE Split(_, _)
\* The flat sequence s cut into consecutive pieces of the lengths lens.
Split(s, lens) ==
  IF lens = <<>> THEN <<>>
  ELSE <<SubSeq(s, 1, Head(lens))>>
       \o Split(SubSeq(s, Head(lens) + 1, Len(s)), Tail(lens))

RECURSIVE SumSeq(_)
SumSeq(ns) == IF ns = <<>> THEN 0 ELSE Head(ns) + SumSeq(Tail(ns))

\* The branch counts and per-branch constant counts within the bounds.
LenTuples ==
  UNION {{lens \in [1..n -> 0..MaxTotalConsts] : SumSeq(lens) <= MaxTotalConsts}
         : n \in 1..MaxBranches}

(* ------------------------------------------- lines 52-71: the memoising *)
\* The callables a caller may define.
Funs == {"f", "g"}
\* The (in_tree, in_avals) pairs a call may carry.
Signatures == {<<"*", <<"i32">>>>, <<"(*, *)", <<"i32", "i32">>>>}
\* The primitive_name a call may carry.
PrimitiveNames == {"cond"}

\* The arguments of one call of a memoised function, which are its key.
CallKey(fun, sig, name) ==
  [fun |-> fun, in_tree |-> sig[1], in_avals |-> sig[2], primitive_name |-> name]

\* The table tbl with key bound to val.
Store(tbl, key, val) ==
  [x \in DOMAIN tbl \cup {key} |-> IF x = key THEN val ELSE tbl[x]]

\* The table tbl without the keys in gone.
Forget(tbl, gone) == [x \in DOMAIN tbl \ gone |-> tbl[x]]

\* _initial_style_open_jaxpr as it would be if the stored entry were never
\* consulted: every call traces.
OpenJaxprAlwaysTraces(tbl, n, key) ==
  [tbl |-> Store(tbl, key, n + 1), ntraces |-> n + 1, result |-> n + 1,
   traced |-> TRUE]

\* Lines 52-59, a call of the decorated _initial_style_open_jaxpr with the
\* table tbl and n traces made before: a stored entry is returned as it is;
\* otherwise the body runs, traces (the n+1st trace yields program n+1), and
\* its result is stored.
_initial_style_open_jaxpr(tbl, n, key) ==
  IF key \in DOMAIN tbl
  THEN [tbl |-> tbl, ntraces |-> n, result |-> tbl[key], traced |-> FALSE]
  ELSE [tbl |-> Store(tbl, key, n + 1), ntraces |-> n + 1, result |-> n + 1,
        traced |-> TRUE]

\* The history entry of one stager call: whether the key had been called
\* before while its callable lived, and what the call did.
LogEntry(key, r) ==
  [key |-> key, result |-> r.result, traced |-> r.traced,
   repeat |-> key \in DOMAIN first_result]

RECURSIVE Remember(_, _)
\* first_result after the stager calls of log, the earlier first.
Remember(first, log) ==
  IF log = <<>> THEN first
  ELSE Remember(IF Head(log).key \in DOMAIN first THEN first
                ELSE Store(first, Head(log).key, Head(log).result),
                Tail(log))

\* The callables a strongly keyed table keeps referenced: cache() keys its
\* entries on the call's arguments themselves, funs among them.
StronglyKept == UNION {{key.fun[j] : j \in 1..Len(key.fun)} : key \in DOMAIN common_cache}

\* The entries of the two outer tables.
NumEntries == Cardinality(DOMAIN closed_cache) + Cardinality(DOMAIN common_cache)

\* The caller defines callable f anew.
Define(f) ==
  /\ f \notin held
  /\ f \notin StronglyKept
  /\ held' = held \cup {f}
  /\ stage_log' = <<>>
  /\ UNCHANGED <<open_cache, closed_cache, common_cache, ntraces, first_result>>
  /\ UNCHANGED <<uvars, kvars>>

\* The entries of a weakly keyed table that go when callable f is collected.
Released(tbl, f) == {key \in DOMAIN tbl : key.fun = f}

\* The caller drops its reference to f. With no other reference left f is
\* collected, and the weakly keyed tables lose the entries keyed on it.
Drop(f) ==
  /\ f \in held
  /\ held' = held \ {f}
  /\ IF f \in StronglyKept
     THEN UNCHANGED <<open_cache, closed_cache, first_result>>
     ELSE /\ open_cache' = Forget(open_cache, Released(open_cache, f))
          /\ closed_cache' = Forget(closed_cache, Released(closed_cache, f))
          /\ first_result' = Forget(first_result, Released(first_result, f))
  /\ stage_log' = <<>>
  /\ UNCHANGED <<common_cache, ntraces>>
  /\ UNCHANGED <<uvars, kvars>>

\* A call _initial_style_open_jaxpr(fun, in_tree, in_avals, primitive_name).
CallOpen(f, sig, name) ==
  /\ f \in held
  /\ LET key == CallKey(f, sig, name)
         r == _initial_style_open_jaxpr(open_cache, ntraces, key)
         log == <<LogEntry(key, r)>>
     IN /\ r.ntraces <= MaxTraces
        /\ open_cache' = r.tbl
        /\ ntraces' = r.ntraces
        /\ stage_log' = log
        /\ first_result' = Remember(first_result, log)
  /\ UNCHANGED <<held, closed_cache, common_cache>>
  /\ UNCHANGED <<uvars, kvars>>

\* Lines 61-67, a call of the decorated _initial_style_jaxpr.
CallClosed(f, sig, name) ==
  /\ f \in held
  /\ LET key == CallKey(f, sig, name)
     IN IF key \in DOMAIN closed_cache
        THEN /\ stage_log' = <<>>
             /\ UNCHANGED <<open_cache, closed_cache, ntraces, first_result>>
        ELSE LET r == _initial_style_open_jaxpr(open_cache, ntraces, key)
                 log == <<LogEntry(key, r)>>
             IN /\ r.ntraces <= MaxTraces
                /\ NumEntries < MaxEntries
                /\ open_cache' = r.tbl
                /\ ntraces' = r.ntraces
                /\ closed_cache' = Store(closed_cache, key, r.result)
                /\ stage_log' = log
                /\ first_result' = Remember(first_result, log)
  /\ UNCHANGED <<held, common_cache>>
  /\ UNCHANGED <<uvars, kvars>>

RECURSIVE StageEach(_, _, _, _, _)
\* Lines 79-81: the stager called for funs[j], funs[j+1], ... in turn; acc
\* carries the stager's table, the trace count, the results and the history.
StageEach(funs, sig, name, j, acc) ==
  IF j > Len(funs) THEN acc
  ELSE LET key == CallKey(funs[j], sig, name)
           r == _initial_style_open_jaxpr(acc.tbl, acc.ntraces, key)
           e == [key |-> key, result |-> r.result, traced |-> r.traced,
                 repeat |-> key \in DOMAIN Remember(first_result, acc.log)]
       IN StageEach(funs, sig, name, j + 1,
                    [tbl |-> r.tbl, ntraces |-> r.ntraces,
                     results |-> Append(acc.results, r.result),
                     log |-> Append(acc.log, e)])

\* Lines 69-187, a call of the decorated
\* _initial_style_jaxprs_with_common_consts: cache() returns a stored entry
\* as it is; otherwise the body runs and its result is stored under the
\* call's arguments.
CallCommon(funs, sig, name) ==
  /\ \A j \in 1..Len(funs) : funs[j] \in held
  /\ LET key == CallKey(funs, sig, name)
     IN IF key \in DOMAIN common_cache
        THEN /\ stage_log' = <<>>
             /\ UNCHANGED <<open_cache, common_cache, ntraces, first_result>>
        ELSE LET acc == StageEach(funs, sig, name, 1,
                                  [tbl |-> open_cache, ntraces |-> ntraces,
                                   results |-> <<>>, log |-> <<>>])
             IN /\ acc.ntraces <= MaxTraces
                /\ NumEntries < MaxEntries
                /\ open_cache' = acc.tbl
                /\ ntraces' = acc.ntraces
                /\ common_cache' = Store(common_cache, key, acc.results)
                /\ stage_log' = acc.log
                /\ first_result' = Remember(first_result, acc.log)
  /\ UNCHANGED <<held, closed_cache>>
  /\ UNCHANGED <<uvars, kvars>>

\* The tuples of callables a caller may hand to the unifier.
FunTuples == UNION {[1..n -> Funs] : n \in 1..2}

(* ------------------------------------------- lines 189-232: checkers *)
\* A pytree structure (PyTreeDef): a leaf, or a tuple of structures.
Leaf == [kind |-> "leaf", children |-> <<>>]
Node(ch) == [kind |-> "tuple", children |-> ch]
\* The tuples of at most MaxArity leaves, and the leaf.
FlatTrees == {Leaf} \cup {Node([j \in 1..n |-> Leaf]) : n \in 0..MaxArity}
\* The tuples of at most MaxArity flat structures as well.
Trees == FlatTrees \cup UNION {{Node(ch) : ch \in [1..n -> FlatTrees]} : n \in 1..MaxArity}

RECURSIVE NumLeaves(_)
\* treedef.num_leaves
NumLeaves(tree) ==
  IF tree.kind = "leaf" THEN 1
  ELSE LET RECURSIVE Sum(_)
           Sum(j) == IF j > Len(tree.children) THEN 0
                     ELSE NumLeaves(tree.children[j]) + Sum(j + 1)
       IN Sum(1)

\* The abstract values of the leaves: a dtype, with or without weak_type.
Avals ==
  {[dtype |-> "int32", weak_type |-> FALSE],
   [dtype |-> "int32", weak_type |-> TRUE],
   [dtype |-> "float32", weak_type |-> FALSE]}

\* core.typematch(aval1, aval2): the same type up to weak_type.
typematch(aval1, aval2) == aval1.dtype = aval2.dtype

\* f"{aval}"
Str(aval) ==
  IF aval.weak_type
  THEN (IF aval.dtype = "int32" THEN "ShapedArray(int32[], weak_type=True)"
        ELSE "ShapedArray(float32[], weak_type=True)")
  ELSE (IF aval.dtype = "int32" THEN "ShapedArray(int32[])"
        ELSE "ShapedArray(float32[])")

\* _show_diff as it would be if it compared with == instead of typematch.
ShowDiffByEquality(array1, array2) ==
  IF array1 = array2 THEN <<Str(array1)>>
  ELSE <<"DIFFERENT", Str(array1), "vs.", Str(array2)>>

\* Lines 229-232; the f-string is the sequence of its pieces.
_show_diff(array1, array2) ==
  IF typematch(array1, array2) THEN <<Str(array1)>>
  ELSE <<"DIFFERENT", Str(array1), "vs.", Str(array2)>>

\* Lines 189-202. tree_unflatten and tree_map keep the leaves' order, so the
\* diff is the sequence of the leaves' renderings in the structure tree1.
_check_tree_and_avals(tree1, avals1, tree2, avals2) ==
  IF tree1 # tree2
  THEN [exc |-> "TypeError", msg |-> "must have same type structure", diff |-> <<>>]
  ELSE IF ~(\A j \in 1..Len(avals1) : typematch(avals1[j], avals2[j]))
  THEN [exc |-> "TypeError", msg |-> "must have identical types",
        diff |-> [j \in 1..Len(avals1) |-> _show_diff(avals1[j], avals2[j])]]
  ELSE [exc |-> "none", msg |-> "", diff |-> <<>>]

\* _check_tree as it would be if it took the last child as the result tree.
CheckTreeTakesLastChild(actual_tree, expected_tree, has_aux) ==
  LET actual_tree_children == actual_tree.children
      selected == IF has_aux THEN actual_tree_children[Len(actual_tree_children)]
                  ELSE actual_tree
  IN IF has_aux /\ Len(actual_tree_children) # 2
     THEN [exc |-> "ValueError", compared |-> <<>>]
     ELSE [exc |-> IF selected # expected_tree THEN "TypeError" ELSE "none",
           compared |-> <<selected, expected_tree>>]

\* Lines 204-220: the exception raised and the structures line 217 compared
\* (none when the function left before).
_check_tree(actual_tree, expected_tree, has_aux) ==
  LET actual_tree_children == actual_tree.children
      selected == IF has_aux THEN actual_tree_children[1] ELSE actual_tree
  IN IF has_aux /\ Len(actual_tree_children) # 2
     THEN [exc |-> "ValueError", compared |-> <<>>]
     ELSE [exc |-> IF selected # expected_tree THEN "TypeError" ELSE "none",
           compared |-> <<selected, expected_tree>>]

\* A call _check_tree(func_name, expected_name, actual_tree, expected_tree, has_aux).
CheckTree ==
  /\ checked.op = "none"
  /\ \E actual_tree \in Trees, expected_tree \in Trees, has_aux \in BOOLEAN :
       checked' = [op |-> "_check_tree", actual_tree |-> actual_tree,
                   expected_tree |-> expected_tree, has_aux |-> has_aux,
                   out |-> _check_tree(actual_tree, expected_tree, has_aux)]
  /\ UNCHANGED <<uvars, cvars>>

\* A call _check_tree_and_avals(what, tree1, avals1, tree2, avals2), each
\* avals as long as its tree has leaves.
CheckTreeAndAvals ==
  /\ checked.op = "none"
  /\ \E tree1 \in FlatTrees, tree2 \in FlatTrees :
       \E avals1 \in [1..NumLeaves(tree1) -> Avals],
          avals2 \in [1..NumLeaves(tree2) -> Avals] :
         checked' = [op |-> "_check_tree_and_avals", tree1 |-> tree1,
                     avals1 |-> avals1, tree2 |-> tree2, avals2 |-> avals2,
                     out |-> _check_tree_and_avals(tree1, avals1, tree2, avals2)]
  /\ UNCHANGED <<uvars, cvars>>

(* ------------------------------------------------------ initial states *)
UnifierIdle ==
  /\ all_consts = <<>>
  /\ jaxprs = <<>>
  /\ canonical_ref_indices = <<>>
  /\ canonical_refs = <<>>
  /\ tracer_id_to_canonical_id = <<>>
  /\ all_nonref_consts = <<>>
  /\ canonical_ref_avals = <<>>
  /\ all_nonref_const_avals = <<>>
  /\ unused_ref_const_vars = <<>>
  /\ unused_const_vars = <<>>
  /\ consts = <<>>
  /\ pc = "idle"
  /\ k = 1

\* No callable defined, nothing memoised.
CachesEmpty ==
  /\ held = {}
  /\ open_cache = <<>>
  /\ closed_cache = <<>>
  /\ common_cache = <<>>
  /\ ntraces = 0
  /\ first_result = <<>>
  /\ stage_log = <<>>

NothingChecked == checked = [op |-> "none"]

\* all_consts is what lines 79-81 can hand to the rest of the function.
Init ==
  /\ \E lens \in LenTuples :
       \E s \in [1..SumSeq(lens) -> Consts] : all_consts = Split(s, lens)
  /\ jaxprs = [i \in 1..Len(all_consts) |-> TracedConstvars(all_consts[i], i)]
  /\ canonical_ref_indices = <<>>
  /\ canonical_refs = <<>>
  /\ tracer_id_to_canonical_id = <<>>
  /\ all_nonref_consts = <<>>
  /\ canonical_ref_avals = <<>>
  /\ all_nonref_const_avals = <<>>
  /\ unused_ref_const_vars = <<>>
  /\ unused_const_vars = <<>>
  /\ consts = <<>>
  /\ pc = "dedup"
  /\ k = 1
  /\ CachesEmpty
  /\ NothingChecked

Next == DedupBranch \/ MakeUnusedVars \/ PadBranch \/ Return

\* One call of _initial_style_jaxprs_with_common_consts, from the staged
\* branches to the return.
Spec == Init /\ [][Next]_vars

CacheInit == UnifierIdle /\ CachesEmpty /\ NothingChecked

CacheNext ==
  \/ \E f \in Funs : Define(f)
  \/ \E f \in Funs : Drop(f)
  \/ \E f \in Funs, sig \in Signatures, name \in PrimitiveNames : CallOpen(f, sig, name)
  \/ \E f \in Funs, sig \in Signatures, name \in PrimitiveNames : CallClosed(f, sig, name)
  \/ \E funs \in FunTuples, sig \in Signatures, name \in PrimitiveNames :
       CallCommon(funs, sig, name)

\* Any sequence of calls of the three memoised functions by a caller that
\* defines and drops callables.
SpecCache == CacheInit /\ [][CacheNext]_vars

(* ------------------------------------------- the unifier's properties *)
\* What the claims speak of, read off the call's inputs.
NumBranches == Len(all_consts)
Returned == pc = "done"
IsRefConst(c) == IsAbstractRef(_abstractify(c))
\* The constvars branch i had before the rewriting.
OrigConstvars(i) == TracedConstvars(all_consts[i], i)
\* The positions of branch i's constants holding the Ref of identity r.
RefPositions(i, r) ==
  {j \in 1..Len(all_consts[i]) : IsRefConst(all_consts[i][j]) /\ all_consts[i][j].id = r}
\* The branches that captured the Ref of identity r.
Capturing(r) == {i \in 1..NumBranches : RefPositions(i, r) # {}}
\* The Ref identities captured by some branch.
CapturedRefIds == {r \in RefIds : Capturing(r) # {}}
\* The positions of the returned constant list holding the Ref of identity r.
SlotsOf(r) == {p \in 1..Len(consts) : IsRefConst(consts[p]) /\ consts[p].id = r}
\* The number of plain constants of branch i.
NumPlain(i) == Cardinality({j \in 1..Len(all_consts[i]) : ~IsRefConst(all_consts[i][j])})
RECURSIVE SumPlain(_)
SumPlain(n) == IF n = 0 THEN 0 ELSE NumPlain(n) + SumPlain(n - 1)
Range(f) == {f[x] : x \in DOMAIN f}

RECURSIVE KeepIf(_, _, _)
\* The elements s[j], s[j+1], ... whose position is in the set keep.
KeepIf(s, keep, j) ==
  IF j > Len(s) THEN <<>>
  ELSE (IF j \in keep THEN <<s[j]>> ELSE <<>>) \o KeepIf(s, keep, j + 1)

\* C1: when two or more branches capture the same Ref identity, the returned
\* constant list has exactly one slot for it, and each of those branches has,
\* at that position of its rewritten constvars, a variable of its own that
\* stood for that Ref.
C1_DedupCorrect ==
  Returned =>
    \A r \in RefIds :
      Cardinality(Capturing(r)) >= 2 =>
        /\ Cardinality(SlotsOf(r)) = 1
        /\ \A i \in Capturing(r) : \A p \in SlotsOf(r) :
             /\ p <= Len(jaxprs[i])
             /\ jaxprs[i][p] \in {OrigConstvars(i)[j] : j \in RefPositions(i, r)}

C1_Witness ==
  /\ Returned
  /\ \E r \in RefIds : Cardinality(Capturing(r)) >= 2
  /\ Cardinality(CapturedRefIds) = 2

\* C2: after unification the padded constvars have the same length in every
\* branch: the number of distinct captured Refs plus the number of plain
\* constants of all the branches, which is the length of the returned
\* constant list; and position by position they carry the type of the
\* constant at that position.
C2_InterfaceUniform ==
  Returned =>
    /\ Len(consts) = Cardinality(CapturedRefIds) + SumPlain(NumBranches)
    /\ \A i \in 1..NumBranches :
         /\ Len(jaxprs[i]) = Len(consts)
         /\ \A p \in 1..Len(consts) : jaxprs[i][p].aval = _abstractify(consts[p])

C2_Witness ==
  /\ Returned
  /\ NumBranches >= 2
  /\ CapturedRefIds # {}
  /\ \E i, j \in 1..NumBranches : i # j /\ NumPlain(i) > 0 /\ NumPlain(j) > 0
  /\ \E i \in 1..NumBranches : Len(all_consts[i]) = 0

\* C3: the returned constant list is the captured Refs, each once, in the
\* order of their first occurrence over the branches in branch order,
\* followed by the plain constants of branch 1, of branch 2, ..., each
\* branch's in their own order.
C3_AllConstsOrder ==
  Returned =>
    LET flat == concatenate(all_consts)
        firstRef == {p \in 1..Len(flat) :
                       /\ IsRefConst(flat[p])
                       /\ \A q \in 1..(p - 1) : flat[q] # flat[p]}
        plain == {p \in 1..Len(flat) : ~IsRefConst(flat[p])}
    IN consts = KeepIf(flat, firstRef, 1) \o KeepIf(flat, plain, 1)

C3_Witness ==
  /\ Returned
  /\ Cardinality(CapturedRefIds) = 2
  /\ \E r \in RefIds : Cardinality(Capturing(r)) >= 2
  /\ \E i \in 1..NumBranches : NumPlain(i) > 0
  /\ IsRefConst(all_consts[1][1]) /\ all_consts[1][1].id = 2

\* C4: the padded constvars of branch i are, in order: one entry per
\* canonical Ref slot (a variable of the branch's own that stood for that
\* Ref when the branch captured it, the slot's placeholder otherwise), the
\* placeholders of the plain constants of the branches before i, the
\* branch's own plain-constant variables in their original order, the
\* placeholders of the plain constants of the branches after i.
C4_PaddedLayout ==
  Returned =>
    \A i \in 1..NumBranches :
      LET nrefs == Cardinality(CapturedRefIds)
          orig == OrigConstvars(i)
          ownPlain == KeepIf(orig, {j \in 1..Len(orig) : ~IsRefConst(all_consts[i][j])}, 1)
      IN /\ \A b \in 1..NumBranches : Len(unused_const_vars[b]) = NumPlain(b)
         /\ Len(unused_ref_const_vars) = nrefs
         /\ Len(jaxprs[i]) >= nrefs
         /\ \A s \in 1..nrefs :
              IF RefPositions(i, consts[s].id) # {}
              THEN jaxprs[i][s] \in {orig[j] : j \in RefPositions(i, consts[s].id)}
              ELSE jaxprs[i][s] = unused_ref_const_vars[s]
         /\ SubSeq(jaxprs[i], nrefs + 1, Len(jaxprs[i])) =
              concatenate(SubSeq(unused_const_vars, 1, i - 1))
                \o ownPlain
                \o concatenate(SubSeq(unused_const_vars, i + 1, NumBranches))

C4_Witness ==
  /\ Returned
  /\ NumBranches = 3
  /\ \A i \in 1..3 : NumPlain(i) > 0
  /\ \E r \in RefIds : Capturing(r) = {2}

\* C9 (the claim as stated): for every branch the padded constvars hold
\* every constvar the branch's jaxpr had and hold no variable twice.
C9_BindingPreserved ==
  Returned =>
    \A i \in 1..NumBranches :
      /\ Range(OrigConstvars(i)) \subseteq Range(jaxprs[i])
      /\ \A p, q \in 1..Len(jaxprs[i]) : jaxprs[i][p] = jaxprs[i][q] => p = q

\* C10: a constvar of a branch's original jaxpr that sits at position p of
\* the branch's padded constvars has its captured constant at position p of
\* the returned constant list.
C10_ValueAligned ==
  Returned =>
    \A i \in 1..NumBranches :
      \A j \in 1..Len(all_consts[i]) :
        \A p \in 1..Len(jaxprs[i]) :
          jaxprs[i][p] = OrigConstvars(i)[j] =>
            p <= Len(consts) /\ consts[p] = all_consts[i][j]

C10_Witness ==
  /\ Returned
  /\ NumBranches >= 2
  /\ \E i \in 2..NumBranches :
       /\ Len(all_consts[i]) >= 2
       /\ ~IsRefConst(all_consts[i][1])
       /\ IsRefConst(all_consts[i][2])
       /\ Capturing(all_consts[i][2].id) = {i}
  /\ Cardinality(CapturedRefIds) = 2
  /\ NumPlain(1) > 0

(* ------------------------------------------- the checkers' properties *)
CheckInit == UnifierIdle /\ CachesEmpty /\ NothingChecked

CheckNext == CheckTree \/ CheckTreeAndAvals

\* One call of either checker, on any arguments within the bounds.
SpecCheck == CheckInit /\ [][CheckNext]_vars

\* C7: with has_aux set and an actual structure that has not exactly 2
\* children, _check_tree raises ValueError having compared nothing; with
\* exactly 2 children it compares the first child; without has_aux it
\* compares the actual structure; and whenever it compares, it raises
\* TypeError exactly when the compared structure differs from the expected
\* one and nothing otherwise.
C7_CheckTree ==
  checked.op = "_check_tree" =>
    LET ch == checked.actual_tree.children
        out == checked.out
    IN /\ (checked.has_aux /\ Len(ch) # 2) =>
            (out.exc = "ValueError" /\ out.compared = <<>>)
       /\ (checked.has_aux /\ Len(ch) = 2) =>
            out.compared = <<ch[1], checked.expected_tree>>
       /\ ~checked.has_aux =>
            out.compared = <<checked.actual_tree, checked.expected_tree>>
       /\ out.compared # <<>> =>
            /\ out.exc \in {"TypeError", "none"}
            /\ out.exc = "TypeError" <=> out.compared[1] # out.compared[2]

C7_Witness ==
  /\ checked.op = "_check_tree"
  /\ checked.has_aux
  /\ Len(checked.actual_tree.children) = 2
  /\ checked.actual_tree.children[1] = checked.expected_tree
  /\ checked.actual_tree.children[2] # checked.expected_tree
  /\ checked.out.exc = "none"

\* C8: _check_tree_and_avals raises TypeError when the structures differ;
\* with equal structures it raises TypeError exactly when some pair of
\* corresponding avals fails typematch, and the diff then marks as
\* DIFFERENT exactly the leaves whose pair fails typematch and renders every
\* other leaf as its one value; with equal structures and all pairs matching
\* it raises nothing.
C8_CheckTreeAndAvals ==
  checked.op = "_check_tree_and_avals" =>
    LET out == checked.out
        a1 == checked.avals1
        a2 == checked.avals2
        bad == {j \in 1..Len(a1) : ~typematch(a1[j], a2[j])}
    IN IF checked.tree1 # checked.tree2
       THEN out.exc = "TypeError"
       ELSE /\ out.exc = "TypeError" <=> bad # {}
            /\ out.exc \in {"TypeError", "none"}
            /\ out.exc = "TypeError" =>
                 /\ Len(out.diff) = Len(a1)
                 /\ \A j \in 1..Len(a1) :
                      /\ Head(out.diff[j]) = "DIFFERENT" <=> j \in bad
                      /\ j \notin bad => out.diff[j] = <<Str(a1[j])>>

C8_Witness ==
  /\ checked.op = "_check_tree_and_avals"
  /\ checked.tree1 = checked.tree2
  /\ Len(checked.avals1) = 2
  /\ checked.avals1[1] # checked.avals2[1]
  /\ typematch(checked.avals1[1], checked.avals2[1])
  /\ ~typematch(checked.avals1[2], checked.avals2[2])
  /\ checked.out.exc = "TypeError"

C6_OnlyWeakState ==
  \A f \in Funs \ held :
    /\ \A key \in DOMAIN open_cache \cup DOMAIN closed_cache : key.fun # f
    /\ \A key \in DOMAIN common_cache : \A j \in 1..Len(key.fun) : key.fun[j] # f

====
